---- MODULE Spec2Model ----
\* DataSetByFeature (src/shared/ebm_native/DataSetInteraction.cpp): the owning
\* aggregate of the residual array and the per-feature column arrays, its two
\* builders ConstructResidualErrors and ConstructInputData, Initialize and
\* Destruct, over an explicit heap of blocks.
EXTENDS Integers, Sequences, FiniteSets, TLC

\* ---------------------------------------------------------------------------
\* Bounds of the model
\* ---------------------------------------------------------------------------
MaxInstances == 3

MaxFeatures == 3

MaxClasses == 3

MaxBins == 4

\* width of size_t in the model (the products of the code are taken mod 2^SizeBits)
SizeBits == 4

\* width of StorageDataType in the model
StorageBits == 3

MaxInits == 2

MaxDestructs == 2

\* ---------------------------------------------------------------------------
\* Program constants and the helpers of EbmInternal.h
\* ---------------------------------------------------------------------------
NULL == 0

k_Regression == -1

SizeMax == 2^SizeBits - 1

StorageMax == 2^StorageBits - 1

\* an instance count whose product with one fits size_t and with three does not
BigInstances == (SizeMax \div 2) + 1

GetVectorLength(task) == IF task <= 2 THEN 1 ELSE task

IsClassification(task) == 0 <= task

IsBinaryClassification(task) == task = 2

IsRegression(task) == task = k_Regression

IsMultiplyError(a, b) == b # 0 /\ a > SizeMax \div b

\* static_cast<StorageDataType>(data): reduction modulo 2^StorageBits
Narrow(data) == data % (StorageMax + 1)

\* a StorageDataType cell read back as an IntEbmType: the unsigned narrow
\* value is kept
Widen(cell) == cell

\* mutant: the sign of the raw code is not looked at
IsLegalCode_NoSign(data, cBins) ==
    /\ data <= SizeMax
    /\ data < cBins
    /\ data <= StorageMax

\* the four EBM_ASSERTs on a raw code
IsLegalCode(data, cBins) ==
    /\ 0 <= data
    /\ data <= SizeMax
    /\ data < cBins
    /\ data <= StorageMax

\* ---------------------------------------------------------------------------
\* The heap: blocks by address, the live addresses, the trace of the operation
\* ---------------------------------------------------------------------------
Block(kind, cItems) == [kind |-> kind, len |-> cItems, cells |-> <<>>]

Ev(ev, kind, p) == [ev |-> ev, kind |-> kind, p |-> p]

Put(heap, p, b) == [q \in (DOMAIN heap) \cup {p} |-> IF q = p THEN b ELSE heap[q]]

FreshAddress(M) ==
    CHOOSE p \in 1..(Cardinality(DOMAIN M.heap) + 1) :
        /\ p \notin DOMAIN M.heap
        /\ \A q \in 1..(p - 1) : q \in DOMAIN M.heap

\* EbmMalloc<T, false>(cItems): a block of cItems uninitialized items, or null
EbmMalloc(M, kind, cItems, ok) ==
    IF ok
    THEN LET p == FreshAddress(M)
         IN  [M |-> [heap |-> Put(M.heap, p, Block(kind, cItems)),
                     live |-> M.live \cup {p},
                     log  |-> Append(M.log, Ev("malloc", kind, p))],
              p |-> p]
    ELSE [M |-> [M EXCEPT !.log = Append(@, Ev("fail", kind, NULL))], p |-> NULL]

\* free(p): no-op on null; freeing an address that is not live is a double free
free(M, p) ==
    IF p = NULL
    THEN M
    ELSE [M EXCEPT !.live = @ \ {p},
                   !.log = Append(@, Ev(IF p \in M.live THEN "free" ELSE "dfree",
                                        IF p \in DOMAIN M.heap THEN M.heap[p].kind ELSE "wild",
                                        p))]

\* ---------------------------------------------------------------------------
\* ConstructResidualErrors
\* ---------------------------------------------------------------------------
\* InitializeResiduals<...>::Func writes cInstances * cVectorLength values
\* through aResidualErrors; with a null aResidualErrors that is undefined
\* behaviour, which either stops the process there or goes unnoticed.
InitializeResiduals(M, kernel, aResidualErrors, ubCrash) ==
    [M |-> [M EXCEPT !.log = Append(@, Ev("kernel", kernel, aResidualErrors))],
     crashed |-> (aResidualErrors = NULL /\ ubCrash)]

\* mutant: the element count ignores the vector length
ResidualElements_NoVector(cInstances, cVectorLength) == cInstances

\* cElements = cInstances * cVectorLength, in size_t
ResidualElements(cInstances, cVectorLength) == (cInstances * cVectorLength) % (SizeMax + 1)

\* mutant: the scratch vector is not released after the multiclass kernel
ResidualBody_KeepsScratch(M, cInstances, task, resOk, tmpOk, ubCrash) ==
      LET cVectorLength == GetVectorLength(task)
          cElements == (cInstances * cVectorLength) % (SizeMax + 1)
          a == EbmMalloc(M, "res", cElements, resOk)
      IN
      IF IsClassification(task)
      THEN IF IsBinaryClassification(task)
           THEN LET k == InitializeResiduals(a.M, "binary", a.p, ubCrash)
                IN  [M |-> k.M, ret |-> IF k.crashed THEN NULL ELSE a.p, crashed |-> k.crashed]
           ELSE LET t == EbmMalloc(a.M, "tmp", cVectorLength, tmpOk)
                IN
                IF t.p = NULL
                THEN [M |-> free(t.M, a.p), ret |-> NULL, crashed |-> FALSE]
                ELSE LET k == InitializeResiduals(t.M, "multiclass", a.p, ubCrash)
                     IN  [M |-> k.M, ret |-> IF k.crashed THEN NULL ELSE a.p,
                          crashed |-> k.crashed]
      ELSE LET k == InitializeResiduals(a.M, "regression", a.p, ubCrash)
           IN  [M |-> k.M, ret |-> IF k.crashed THEN NULL ELSE a.p, crashed |-> k.crashed]

\* from the allocation of the residual array to the return
ResidualBody(M, cInstances, task, resOk, tmpOk, ubCrash) ==
      LET cVectorLength == GetVectorLength(task)
          cElements == ResidualElements(cInstances, cVectorLength)
          a == EbmMalloc(M, "res", cElements, resOk)
      IN
      IF IsClassification(task)
      THEN IF IsBinaryClassification(task)
           THEN LET k == InitializeResiduals(a.M, "binary", a.p, ubCrash)
                IN  [M |-> k.M, ret |-> IF k.crashed THEN NULL ELSE a.p, crashed |-> k.crashed]
           ELSE LET t == EbmMalloc(a.M, "tmp", cVectorLength, tmpOk)
                IN
                IF t.p = NULL
                THEN [M |-> free(t.M, a.p), ret |-> NULL, crashed |-> FALSE]
                ELSE LET k == InitializeResiduals(t.M, "multiclass", a.p, ubCrash)
                     IN  IF k.crashed
                         THEN [M |-> k.M, ret |-> NULL, crashed |-> TRUE]
                         ELSE [M |-> free(k.M, t.p), ret |-> a.p, crashed |-> FALSE]
      ELSE LET k == InitializeResiduals(a.M, "regression", a.p, ubCrash)
           IN  [M |-> k.M, ret |-> IF k.crashed THEN NULL ELSE a.p, crashed |-> k.crashed]

\* mutant: the product is not checked for overflow
ConstructResidualErrors_NoGuard(M, cInstances, task, resOk, tmpOk, ubCrash) ==
    ResidualBody(M, cInstances, task, resOk, tmpOk, ubCrash)

ConstructResidualErrors(M, cInstances, task, resOk, tmpOk, ubCrash) ==
    IF IsMultiplyError(cInstances, GetVectorLength(task))
    THEN [M |-> [M EXCEPT !.log = Append(@, Ev("overflow", "res", NULL))],
          ret |-> NULL, crashed |-> FALSE]
    ELSE ResidualBody(M, cInstances, task, resOk, tmpOk, ubCrash)

\* ---------------------------------------------------------------------------
\* ConstructInputData
\* ---------------------------------------------------------------------------
\* mutant: the unwind stops one sub-array short
RECURSIVE FreeAll_StopsShort(_, _, _)
FreeAll_StopsShort(M, aaInputDataTo, k) ==
    IF k <= 1
    THEN M
    ELSE FreeAll_StopsShort(free(M, M.heap[aaInputDataTo].cells[k]), aaInputDataTo, k - 1)

\* free_all: the while loop that frees the sub-arrays stored so far, last first
RECURSIVE FreeAll(_, _, _)
FreeAll(M, aaInputDataTo, k) ==
    IF k = 0
    THEN M
    ELSE FreeAll(free(M, M.heap[aaInputDataTo].cells[k]), aaInputDataTo, k - 1)

\* mutant: the offset of the run is not scaled by cInstances
SourceRow_Unscaled(pFeature, cInstances, aBinnedData) ==
    [j \in 1..cInstances |-> aBinnedData[pFeature.iFeatureData + j]]

\* the run of cInstances raw codes of one feature in aBinnedData
SourceRow(pFeature, cInstances, aBinnedData) ==
    LET from == (pFeature.iFeatureData * cInstances) % (SizeMax + 1)
    IN  [j \in 1..cInstances |-> aBinnedData[from + j]]

\* the inner do-while from raw code j on: each raw code is looked at by the
\* four EBM_ASSERTs and then stored narrowed, one cell at a time; with
\* assertions the first illegal code stops the process with the cells before
\* it already stored
RECURSIVE CopyRow(_, _, _, _, _, _)
CopyRow(M, pInputDataTo, row, j, cBins, assertsOn) ==
    IF assertsOn /\ ~IsLegalCode(row[j], cBins)
    THEN [M |-> M, aborted |-> TRUE]
    ELSE LET M1 == [M EXCEPT !.heap[pInputDataTo].cells = Append(@, Narrow(row[j]))]
         IN  IF j = Len(row)
             THEN [M |-> M1, aborted |-> FALSE]
             ELSE CopyRow(M1, pInputDataTo, row, j + 1, cBins, assertsOn)

\* mutant: the sub-array is one cell short
FeatureAlloc_Short(M, cInstances, ok) == EbmMalloc(M, "col", cInstances - 1, ok)

\* pInputDataTo = EbmMalloc<StorageDataType, false>(cInstances)
FeatureAlloc(M, cInstances, ok) == EbmMalloc(M, "col", cInstances, ok)

\* the outer do-while from feature i on; failAt is the feature whose
\* allocation fails
RECURSIVE FeatureLoop(_, _, _, _, _, _)
FeatureLoop(M, aaInputDataTo, i, a, failAt, assertsOn) ==
    LET m == FeatureAlloc(M, a.cInstances, failAt # i)
    IN
    IF m.p = NULL
    THEN [M |-> free(FreeAll(m.M, aaInputDataTo, i - 1), aaInputDataTo),
          ret |-> NULL, aborted |-> FALSE]
    ELSE
      LET M1  == [m.M EXCEPT !.heap[aaInputDataTo].cells = Append(@, m.p)]
          row == SourceRow(a.aFeatures[i], a.cInstances, a.aBinnedData)
          c   == CopyRow(M1, m.p, row, 1, a.aFeatures[i].cBins, assertsOn)
      IN
      IF c.aborted
      THEN [M |-> c.M, ret |-> NULL, aborted |-> TRUE]
      ELSE IF i = a.cFeatures
           THEN [M |-> c.M, ret |-> aaInputDataTo, aborted |-> FALSE]
           ELSE FeatureLoop(c.M, aaInputDataTo, i + 1, a, failAt, assertsOn)

\* failAt = 0: the outer array's allocation fails; failAt = k in 1..cFeatures:
\* the k-th sub-array's; failAt = cFeatures + 1: none
ConstructInputData(M, a, failAt, assertsOn) ==
    LET o == EbmMalloc(M, "outer", a.cFeatures, failAt # 0)
    IN
    IF o.p = NULL
    THEN [M |-> o.M, ret |-> NULL, aborted |-> FALSE]
    ELSE FeatureLoop(o.M, o.p, 1, a, failAt, assertsOn)

\* ---------------------------------------------------------------------------
\* State
\* ---------------------------------------------------------------------------
VARIABLES
    m_aResidualErrors,  \* field: address of the residual array, or NULL
    m_aaInputData,      \* field: address of the outer column array, or NULL
    m_cInstances,       \* field
    m_cFeatures,        \* field
    mem,                \* [heap, live, log]: blocks, live addresses, trace of the current operation
    pc,                 \* position of the caller / of Initialize
    frame,              \* arguments and locals of the current (last) Initialize
    pre,                \* the four fields at entry of the current (last) Initialize
    ret,                \* what the last Initialize returned: "none", "false", "true"
    op,                 \* the current (last) operation
    nInit,              \* Initialize calls so far
    nDestruct,          \* Destruct calls so far
    nOk,                \* Initialize calls that returned false (success) so far
    asserts             \* the build: EBM_ASSERT compiled in (TRUE) or out (FALSE)

vars == <<m_aResidualErrors, m_aaInputData, m_cInstances, m_cFeatures, mem, pc,
          frame, pre, ret, op, nInit, nDestruct, nOk, asserts>>

Fields == [m_aResidualErrors |-> m_aResidualErrors, m_aaInputData |-> m_aaInputData,
           m_cInstances |-> m_cInstances, m_cFeatures |-> m_cFeatures]

ZeroFields == [m_aResidualErrors |-> NULL, m_aaInputData |-> NULL,
               m_cInstances |-> 0, m_cFeatures |-> 0]

\* ---------------------------------------------------------------------------
\* Inputs of Initialize
\* ---------------------------------------------------------------------------
Tasks == {k_Regression} \cup (2..MaxClasses)

InstanceCounts == (0..MaxInstances) \cup {BigInstances}

FeatureCounts == 0..MaxFeatures

\* raw codes, repeated to the length of the buffer: one run of legal codes, one
\* with a negative code, a code beyond the bin count and one beyond the storage width
Patterns == {<<0, 3, 1, 2>>, <<1, -1, 5, 9>>}

BinnedData(cFeatures, cInstances, pat) ==
    [k \in 1..(cFeatures * cInstances) |-> pat[((k - 1) % Len(pat)) + 1]]

\* Feature metadata: GetIndexFeatureData() in buffer order or reversed, GetCountBins()
FeatureTables(cFeatures) ==
    { [i \in 1..cFeatures |-> [iFeatureData |-> i - 1, cBins |-> MaxBins]],
      [i \in 1..cFeatures |-> [iFeatureData |-> cFeatures - i, cBins |-> MaxBins]] }

NoFrame == [cFeatures |-> 0, aFeatures |-> <<>>, cInstances |-> 0, aBinnedData |-> <<>>,
            task |-> k_Regression, aResidualErrors |-> NULL, aaInputData |-> NULL]

\* ---------------------------------------------------------------------------
\* Init
\* ---------------------------------------------------------------------------
Init ==
    /\ m_aResidualErrors = NULL
    /\ m_aaInputData = NULL
    /\ m_cInstances = 0
    /\ m_cFeatures = 0
    /\ mem = [heap |-> <<>>, live |-> {}, log |-> <<>>]
    /\ pc = "idle"
    /\ frame = NoFrame
    /\ pre = ZeroFields
    /\ ret = "none"
    /\ op = "none"
    /\ nInit = 0
    /\ nDestruct = 0
    /\ nOk = 0
    /\ asserts \in BOOLEAN

\* ---------------------------------------------------------------------------
\* DataSetByFeature::Initialize
\* ---------------------------------------------------------------------------
\* the three EBM_ASSERTs at entry
InitializePrecondition ==
    /\ NULL = m_aResidualErrors
    /\ NULL = m_aaInputData
    /\ 0 = m_cInstances

\* entry: the asserts, then the branch on cInstances
InitializeEnter(cFeatures, aFeatures, cInstances, aBinnedData, task) ==
    /\ pc = "idle"
    /\ nInit' = nInit + 1
    /\ op' = "Initialize"
    /\ ret' = "none"
    /\ pre' = Fields
    /\ frame' = [cFeatures |-> cFeatures, aFeatures |-> aFeatures, cInstances |-> cInstances,
                 aBinnedData |-> aBinnedData, task |-> task,
                 aResidualErrors |-> NULL, aaInputData |-> NULL]
    /\ mem' = [heap |-> [p \in mem.live |-> mem.heap[p]], live |-> mem.live, log |-> <<>>]
    /\ pc' = IF asserts /\ ~InitializePrecondition THEN "assert_failed"
             ELSE IF 0 # cInstances THEN "ConstructResidualErrors"
             ELSE "commit"
    /\ UNCHANGED <<m_aResidualErrors, m_aaInputData, m_cInstances, m_cFeatures,
                   nDestruct, nOk, asserts>>

\* mutant: the residual array is stored in its field as soon as it is built
InitializeResiduals_Step_EarlyStore ==
    /\ pc = "ConstructResidualErrors"
    /\ \E resOk \in BOOLEAN, tmpOk \in BOOLEAN, ubCrash \in BOOLEAN :
        LET r == ConstructResidualErrors(mem, frame.cInstances, frame.task, resOk, tmpOk, ubCrash)
        IN  /\ mem' = r.M
            /\ frame' = [frame EXCEPT !.aResidualErrors = r.ret]
            /\ m_aResidualErrors' = r.ret
            /\ pc' = IF r.crashed THEN "crashed"
                     ELSE IF NULL = r.ret THEN "exit_error"
                     ELSE IF 0 # frame.cFeatures THEN "ConstructInputData"
                     ELSE "commit"
    /\ UNCHANGED <<m_aaInputData, m_cInstances, m_cFeatures,
                   pre, ret, op, nInit, nDestruct, nOk, asserts>>

\* mutant: the column builder is started without looking at the residual array
InitializeResiduals_Step_NoNullTest ==
    /\ pc = "ConstructResidualErrors"
    /\ \E resOk \in BOOLEAN, tmpOk \in BOOLEAN, ubCrash \in BOOLEAN :
        LET r == ConstructResidualErrors(mem, frame.cInstances, frame.task, resOk, tmpOk, ubCrash)
        IN  /\ mem' = r.M
            /\ frame' = [frame EXCEPT !.aResidualErrors = r.ret]
            /\ pc' = IF r.crashed THEN "crashed"
                     ELSE IF 0 # frame.cFeatures THEN "ConstructInputData"
                     ELSE IF NULL = r.ret THEN "exit_error"
                     ELSE "commit"
    /\ UNCHANGED <<m_aResidualErrors, m_aaInputData, m_cInstances, m_cFeatures,
                   pre, ret, op, nInit, nDestruct, nOk, asserts>>

\* aResidualErrors = ConstructResidualErrors(...); if null goto exit_error
InitializeResiduals_Step ==
    /\ pc = "ConstructResidualErrors"
    /\ \E resOk \in BOOLEAN, tmpOk \in BOOLEAN, ubCrash \in BOOLEAN :
        LET r == ConstructResidualErrors(mem, frame.cInstances, frame.task, resOk, tmpOk, ubCrash)
        IN  /\ mem' = r.M
            /\ frame' = [frame EXCEPT !.aResidualErrors = r.ret]
            /\ pc' = IF r.crashed THEN "crashed"
                     ELSE IF NULL = r.ret THEN "exit_error"
                     ELSE IF 0 # frame.cFeatures THEN "ConstructInputData"
                     ELSE "commit"
    /\ UNCHANGED <<m_aResidualErrors, m_aaInputData, m_cInstances, m_cFeatures,
                   pre, ret, op, nInit, nDestruct, nOk, asserts>>

\* mutant: the residual array is kept when the column builder fails
InitializeInputData_Step_KeepsResiduals ==
    /\ pc = "ConstructInputData"
    /\ \E failAt \in 0..(frame.cFeatures + 1) :
        LET r == ConstructInputData(mem, frame, failAt, asserts)
        IN  /\ frame' = [frame EXCEPT !.aaInputData = r.ret]
            /\ mem' = r.M
            /\ IF r.aborted
               THEN /\ pc' = "assert_failed"
                    /\ UNCHANGED m_aaInputData
               ELSE IF NULL = r.ret
               THEN /\ pc' = "exit_error"
                    /\ UNCHANGED m_aaInputData
               ELSE /\ pc' = "commit"
                    /\ m_aaInputData' = r.ret
    /\ UNCHANGED <<m_aResidualErrors, m_cInstances, m_cFeatures,
                   pre, ret, op, nInit, nDestruct, nOk, asserts>>

\* aaInputData = ConstructInputData(...); on null free(aResidualErrors) and
\* goto exit_error, else m_aaInputData = aaInputData
InitializeInputData_Step ==
    /\ pc = "ConstructInputData"
    /\ \E failAt \in 0..(frame.cFeatures + 1) :
        LET r == ConstructInputData(mem, frame, failAt, asserts)
        IN  /\ frame' = [frame EXCEPT !.aaInputData = r.ret]
            /\ IF r.aborted
               THEN /\ mem' = r.M
                    /\ pc' = "assert_failed"
                    /\ UNCHANGED m_aaInputData
               ELSE IF NULL = r.ret
               THEN /\ mem' = free(r.M, frame.aResidualErrors)
                    /\ pc' = "exit_error"
                    /\ UNCHANGED m_aaInputData
               ELSE /\ mem' = r.M
                    /\ pc' = "commit"
                    /\ m_aaInputData' = r.ret
    /\ UNCHANGED <<m_aResidualErrors, m_cInstances, m_cFeatures,
                   pre, ret, op, nInit, nDestruct, nOk, asserts>>

\* mutant: m_cFeatures is recorded only for a non-empty dataset
InitializeCommit_FeaturesInside ==
    /\ pc = "commit"
    /\ IF 0 # frame.cInstances
       THEN /\ m_aResidualErrors' = frame.aResidualErrors
            /\ m_cInstances' = frame.cInstances
            /\ m_cFeatures' = frame.cFeatures
       ELSE UNCHANGED <<m_aResidualErrors, m_cInstances, m_cFeatures>>
    /\ ret' = "false"
    /\ nOk' = nOk + 1
    /\ pc' = "idle"
    /\ UNCHANGED <<m_aaInputData, mem, frame, pre, op, nInit, nDestruct, asserts>>

\* mutant: m_cInstances is not recorded
InitializeCommit_NoInstances ==
    /\ pc = "commit"
    /\ IF 0 # frame.cInstances
       THEN m_aResidualErrors' = frame.aResidualErrors
       ELSE UNCHANGED m_aResidualErrors
    /\ m_cFeatures' = frame.cFeatures
    /\ ret' = "false"
    /\ nOk' = nOk + 1
    /\ pc' = "idle"
    /\ UNCHANGED <<m_cInstances, m_aaInputData, mem, frame, pre, op, nInit, nDestruct, asserts>>

\* m_aResidualErrors, m_cInstances (when cInstances is not zero), m_cFeatures; return false
InitializeCommit ==
    /\ pc = "commit"
    /\ IF 0 # frame.cInstances
       THEN /\ m_aResidualErrors' = frame.aResidualErrors
            /\ m_cInstances' = frame.cInstances
       ELSE UNCHANGED <<m_aResidualErrors, m_cInstances>>
    /\ m_cFeatures' = frame.cFeatures
    /\ ret' = "false"
    /\ nOk' = nOk + 1
    /\ pc' = "idle"
    /\ UNCHANGED <<m_aaInputData, mem, frame, pre, op, nInit, nDestruct, asserts>>

\* mutant: the feature count is recorded on the error path too
InitializeExitError_RecordsFeatures ==
    /\ pc = "exit_error"
    /\ ret' = "true"
    /\ pc' = "idle"
    /\ m_cFeatures' = frame.cFeatures
    /\ UNCHANGED <<m_aResidualErrors, m_aaInputData, m_cInstances, mem,
                   frame, pre, op, nInit, nDestruct, nOk, asserts>>

\* mutant: the error exit returns false
InitializeExitError_ReturnsFalse ==
    /\ pc = "exit_error"
    /\ ret' = "false"
    /\ pc' = "idle"
    /\ UNCHANGED <<m_aResidualErrors, m_aaInputData, m_cInstances, m_cFeatures, mem,
                   frame, pre, op, nInit, nDestruct, nOk, asserts>>

\* exit_error: return true
InitializeExitError ==
    /\ pc = "exit_error"
    /\ ret' = "true"
    /\ pc' = "idle"
    /\ UNCHANGED <<m_aResidualErrors, m_aaInputData, m_cInstances, m_cFeatures, mem,
                   frame, pre, op, nInit, nDestruct, nOk, asserts>>

\* the caller: Initialize on an instance that no Initialize has populated and
\* no Destruct has torn down, with a binned-data buffer that fits the address space
Initialize ==
    /\ nInit < MaxInits
    /\ nDestruct = 0
    /\ nOk = 0
    /\ \E cFeatures \in FeatureCounts, cInstances \in InstanceCounts, task \in Tasks :
         /\ cFeatures * cInstances <= SizeMax
         /\ \E aFeatures \in FeatureTables(cFeatures), pat \in Patterns :
               InitializeEnter(cFeatures, aFeatures, cInstances,
                               BinnedData(cFeatures, cInstances, pat), task)

\* ---------------------------------------------------------------------------
\* DataSetByFeature::Destruct
\* ---------------------------------------------------------------------------
\* an address that no allocation of this heap returned: of no block, or of a
\* block of the rest of the process, which may be live
Wild == -1

\* Destruct runs into undefined behaviour when it reads a slot of an outer
\* array that has been freed or a slot beyond its end, and when it frees a
\* block that is not live. What such a read gives and whether the process
\* stops there are not determined, so the operators below give the set of
\* states [M, pc] the code can be in, pc = "run" while it goes on.

\* free(p) inside Destruct: nothing once the process has stopped; a free of
\* a block that is not live stops the process or goes unnoticed
Release(S, p) ==
    IF S.pc # "run" \/ p = NULL
    THEN {S}
    ELSE LET S1 == [S EXCEPT !.M = free(S.M, p)]
         IN  IF S1.M.log[Len(S1.M.log)].ev = "dfree"
             THEN {S1, [S1 EXCEPT !.pc = "crashed"]}
             ELSE {S1}

\* the number of slots the do-while reads: m_cFeatures, and with m_cFeatures = 0
\* the end pointer is never met: the loop runs on behind the block, followed
\* here for MaxFeatures slots, until the process stops
SlotsRead(M) ==
    IF m_cFeatures = 0 THEN Len(M.heap[m_aaInputData].cells) + MaxFeatures ELSE m_cFeatures

\* slot i of m_aaInputData is a slot of a live outer array
SlotDefined(M, i) ==
    /\ m_aaInputData \in M.live
    /\ i <= Len(M.heap[m_aaInputData].cells)

\* what a read of undefined memory can give: null, the address of any block
\* of the heap, live or freed, or an address that no allocation of this heap
\* returned
UndefinedValues(M) == {NULL, Wild} \cup DOMAIN M.heap

\* the slots that Destruct reads from a freed outer array or from beyond the
\* end of the outer array
UndefinedSlots(M) ==
    IF NULL = m_aaInputData
    THEN {}
    ELSE {i \in 1..SlotsRead(M) : ~SlotDefined(M, i)}

\* *paInputData for slot i: the stored address, or for an undefined slot what
\* that memory holds in this run
SlotValue(M, i, reads) ==
    IF SlotDefined(M, i) THEN M.heap[m_aaInputData].cells[i] ELSE reads[i]

\* the do-while over the slots of m_aaInputData from slot i on: the assert on
\* the slot, free of the slot, until slot m_cFeatures has been freed. An
\* undefined read stops the process or gives reads[i]
RECURSIVE DestructLoop(_, _, _)
DestructLoop(S, i, reads) ==
    IF S.pc # "run"
    THEN {S}
    ELSE IF i > SlotsRead(S.M)
    THEN {[S EXCEPT !.pc = "crashed"]}
    ELSE (IF SlotDefined(S.M, i) THEN {} ELSE {[S EXCEPT !.pc = "crashed"]})
         \cup IF asserts /\ SlotValue(S.M, i, reads) = NULL
              THEN {[S EXCEPT !.pc = "assert_failed"]}
              ELSE UNION { IF i = m_cFeatures
                           THEN {S1}
                           ELSE DestructLoop(S1, i + 1, reads) :
                           S1 \in Release(S, SlotValue(S.M, i, reads)) }

\* mutant: the outer array is not freed
DestructBody_KeepsOuter(M, reads) ==
    UNION { IF NULL # m_aaInputData /\ S0.pc = "run"
            THEN IF asserts /\ ~(1 <= m_cFeatures)
                 THEN {[S0 EXCEPT !.pc = "assert_failed"]}
                 ELSE DestructLoop(S0, 1, reads)
            ELSE {S0} :
            S0 \in Release([M |-> M, pc |-> "run"], m_aResidualErrors) }

\* free(m_aResidualErrors); if m_aaInputData is not null: the assert, the
\* do-while, free(m_aaInputData)
DestructBody(M, reads) ==
    UNION { IF NULL # m_aaInputData /\ S0.pc = "run"
            THEN IF asserts /\ ~(1 <= m_cFeatures)
                 THEN {[S0 EXCEPT !.pc = "assert_failed"]}
                 ELSE UNION { Release(l, m_aaInputData) : l \in DestructLoop(S0, 1, reads) }
            ELSE {S0} :
            S0 \in Release([M |-> M, pc |-> "run"], m_aResidualErrors) }

\* mutant: the fields are reset once the blocks are freed
DestructCall_ResetsFields ==
    /\ pc = "idle"
    /\ nDestruct' = nDestruct + 1
    /\ op' = "Destruct"
    /\ \E reads \in [UndefinedSlots(mem) -> UndefinedValues(mem)] :
          \E r \in DestructBody([mem EXCEPT !.log = <<>>], reads) :
             /\ mem' = r.M
             /\ pc' = IF r.pc = "run" THEN "idle" ELSE r.pc
    /\ m_aResidualErrors' = NULL
    /\ m_aaInputData' = NULL
    /\ m_cInstances' = 0
    /\ m_cFeatures' = 0
    /\ UNCHANGED <<frame, pre, ret, nInit, nOk, asserts>>

\* a call of Destruct: what its undefined reads give, and one of the outcomes
\* of its body; it returns when the process was not stopped
DestructCall ==
    /\ pc = "idle"
    /\ nDestruct' = nDestruct + 1
    /\ op' = "Destruct"
    /\ \E reads \in [UndefinedSlots(mem) -> UndefinedValues(mem)] :
          \E r \in DestructBody([mem EXCEPT !.log = <<>>], reads) :
             /\ mem' = r.M
             /\ pc' = IF r.pc = "run" THEN "idle" ELSE r.pc
    /\ UNCHANGED <<m_aResidualErrors, m_aaInputData, m_cInstances, m_cFeatures,
                   frame, pre, ret, nInit, nOk, asserts>>

\* the pointer fields reference no block that has been freed
FieldsLive == ({m_aResidualErrors, m_aaInputData} \ {NULL}) \subseteq mem.live

\* Destruct as its caller may use it: on an instance whose blocks are live
Destruct ==
    /\ nDestruct < MaxDestructs
    /\ FieldsLive
    /\ DestructCall

\* Destruct called once more on an instance that a Destruct has torn down
DestructAgain ==
    /\ nDestruct = 1
    /\ ~FieldsLive
    /\ DestructCall

\* ---------------------------------------------------------------------------
\* Specification
\* ---------------------------------------------------------------------------
Next ==
    \/ Initialize
    \/ InitializeResiduals_Step
    \/ InitializeInputData_Step
    \/ InitializeCommit
    \/ InitializeExitError
    \/ Destruct

Spec == Init /\ [][Next]_vars

\* the caller calls Initialize a second time on an instance that an Initialize
\* has populated, with no Destruct in between
InitializeAgain ==
    /\ nInit < MaxInits
    /\ nDestruct = 0
    /\ nOk = 1
    /\ \E cFeatures \in FeatureCounts, cInstances \in InstanceCounts, task \in Tasks :
         /\ cFeatures * cInstances <= SizeMax
         /\ \E aFeatures \in FeatureTables(cFeatures), pat \in Patterns :
               InitializeEnter(cFeatures, aFeatures, cInstances,
                               BinnedData(cFeatures, cInstances, pat), task)

NextReuse ==
    \/ Initialize
    \/ InitializeAgain
    \/ InitializeResiduals_Step
    \/ InitializeInputData_Step
    \/ InitializeCommit
    \/ InitializeExitError

SpecReuse == Init /\ [][NextReuse]_vars

\* the caller passes feature metadata whose GetIndexFeatureData() is not below
\* cFeatures: Initialize with one feature of data index 0 or 2 over a buffer
\* of one run of BigInstances codes
InitializeOffset ==
    /\ nInit < MaxInits
    /\ nDestruct = 0
    /\ nOk = 0
    /\ \E iFeatureData \in {0, 2}, task \in Tasks, pat \in Patterns :
         InitializeEnter(1, <<[iFeatureData |-> iFeatureData, cBins |-> MaxBins]>>,
                         BigInstances, BinnedData(1, BigInstances, pat), task)

NextOffset ==
    \/ Initialize
    \/ InitializeOffset
    \/ InitializeResiduals_Step
    \/ InitializeInputData_Step
    \/ InitializeCommit
    \/ InitializeExitError
    \/ Destruct

SpecOffset == Init /\ [][NextOffset]_vars

\* the caller tears an instance down twice: Initialize, once, with one
\* instance, then Destruct and Destruct again
InitializeSmall ==
    /\ nInit = 0
    /\ nDestruct = 0
    /\ \E cFeatures \in FeatureCounts, task \in Tasks :
         \E aFeatures \in FeatureTables(cFeatures), pat \in Patterns :
            InitializeEnter(cFeatures, aFeatures, 1, BinnedData(cFeatures, 1, pat), task)

NextTwice ==
    \/ InitializeSmall
    \/ InitializeResiduals_Step
    \/ InitializeInputData_Step
    \/ InitializeCommit
    \/ InitializeExitError
    \/ Destruct
    \/ DestructAgain

SpecTwice == Init /\ [][NextTwice]_vars

\* ---------------------------------------------------------------------------
\* Observations on the trace of the current operation
\* ---------------------------------------------------------------------------
LogIdx(evs, kinds) ==
    {k \in 1..Len(mem.log) : mem.log[k].ev \in evs /\ mem.log[k].kind \in kinds}

BlockKinds == {"res", "tmp", "outer", "col", "wild"}

MallocIdx == LogIdx({"malloc"}, BlockKinds)

FailIdx == LogIdx({"fail"}, BlockKinds)

FreeIdx == LogIdx({"free", "dfree"}, BlockKinds)

DoubleFreeIdx == LogIdx({"dfree"}, BlockKinds)

KernelIdx == LogIdx({"kernel"}, {"binary", "multiclass", "regression"})

ColMallocIdx == LogIdx({"malloc"}, {"col"})

ColFreeIdx == LogIdx({"free", "dfree"}, {"col"})

OuterFreeIdx == LogIdx({"free", "dfree"}, {"outer"})

Addresses(idx) == {mem.log[k].p : k \in idx}

\* the Initialize call has ended: it returned, or the process stopped in it
InitEnded == op = "Initialize" /\ pc \in {"idle", "crashed", "assert_failed"}

InitReturned == op = "Initialize" /\ pc = "idle"

InitFailed == InitReturned /\ ret = "true"

InitSucceeded == InitReturned /\ ret = "false"

\* instanceCount * vectorLength does not fit the size type
ProductOverflows ==
    frame.cInstances * (IF frame.task > 2 THEN frame.task ELSE 1) > SizeMax

\* the raw code of feature i, instance j in the caller's buffer
RawCode(i, j) ==
    frame.aBinnedData[frame.aFeatures[i].iFeatureData * frame.cInstances + j]

\* every raw code is within its feature's bin count and the storage width
LegalInput ==
    \A i \in 1..frame.cFeatures, j \in 1..frame.cInstances :
        /\ 0 <= RawCode(i, j)
        /\ RawCode(i, j) < frame.aFeatures[i].cBins
        /\ RawCode(i, j) <= StorageMax

\* the sub-array addresses held by the outer array the field points at
Slots == IF m_aaInputData = NULL THEN <<>> ELSE mem.heap[m_aaInputData].cells

\* ---------------------------------------------------------------------------
\* Claims
\* ---------------------------------------------------------------------------

\* C1: rollback completeness. Every Initialize call in which an allocation
\* failed ends by returning true with as many blocks freed as allocated, no
\* block live and none freed twice, and a Destruct after it frees no block.
C1_RollbackComplete ==
    /\ (InitEnded /\ FailIdx # {}) =>
          /\ pc = "idle"
          /\ ret = "true"
          /\ Cardinality(MallocIdx) = Cardinality(FreeIdx)
          /\ DoubleFreeIdx = {}
          /\ mem.live = {}
    /\ (op = "Destruct" /\ nDestruct = 1 /\ ret = "true") => FreeIdx = {}

\* C2: state unchanged on error. When Initialize returns true the four fields
\* are as they were at entry, which is the zero state; m_cFeatures is not
\* recorded.
C2_StateUnchangedOnError ==
    InitFailed => (Fields = pre /\ Fields = ZeroFields)

C2_Witness ==
    /\ InitFailed
    /\ frame.cFeatures >= 1
    /\ LogIdx({"fail"}, {"col"}) # {}
    /\ m_cFeatures = 0

\* C3: empty dataset. Initialize with cInstances = 0 returns false for every
\* feature count and task, allocates nothing and calls neither builder, records
\* m_cFeatures, leaves both arrays null and m_cInstances 0; the Destruct that
\* follows frees no block.
C3_EmptyDataset ==
    /\ (op = "Initialize" /\ frame.cInstances = 0) =>
          /\ pc \in {"commit", "idle"}
          /\ mem.log = <<>>
          /\ mem.live = {}
    /\ (InitReturned /\ frame.cInstances = 0) =>
          /\ ret = "false"
          /\ m_cFeatures = frame.cFeatures
          /\ m_aResidualErrors = NULL
          /\ m_aaInputData = NULL
          /\ m_cInstances = 0
    /\ (op = "Destruct" /\ nDestruct = 1 /\ ret = "false" /\ frame.cInstances = 0) =>
          /\ mem.log = <<>>
          /\ pc = "idle"

C3_Witness ==
    /\ op = "Destruct"
    /\ nDestruct = 1
    /\ ret = "false"
    /\ frame.cInstances = 0
    /\ frame.task = MaxClasses
    /\ m_cFeatures = MaxFeatures
    /\ mem.log = <<>>

\* C4: vector-length dispatch. After a successful Initialize with
\* cInstances >= 1 the residual array is a live block of cInstances elements
\* for regression and binary classification and of cInstances * K elements for
\* multiclass classification with K classes.
C4_VectorLengthDispatch ==
    (InitSucceeded /\ frame.cInstances >= 1) =>
        /\ m_aResidualErrors \in mem.live
        /\ mem.heap[m_aResidualErrors].kind = "res"
        /\ mem.heap[m_aResidualErrors].len =
              IF frame.task = k_Regression \/ frame.task = 2
              THEN frame.cInstances
              ELSE frame.cInstances * frame.task

C4_Witness ==
    /\ InitSucceeded
    /\ frame.cInstances = 2
    /\ frame.cFeatures = 0
    /\ frame.task = 3
    /\ mem.heap[m_aResidualErrors].len = 6
    /\ m_aaInputData = NULL

\* C5: capacity guard. When cInstances * cVectorLength overflows the size type
\* the call attempts no allocation and frees nothing, the fields stay zero and
\* Initialize returns true.
C5_CapacityGuard ==
    (op = "Initialize" /\ ProductOverflows) =>
        /\ pc \in {"ConstructResidualErrors", "exit_error", "idle"}
        /\ MallocIdx = {} /\ FailIdx = {} /\ FreeIdx = {} /\ KernelIdx = {}
        /\ mem.live = {}
        /\ Fields = ZeroFields
        /\ (pc = "idle" => ret = "true")

C5_Witness ==
    /\ InitFailed
    /\ ProductOverflows
    /\ frame.cInstances = BigInstances
    /\ Len(mem.log) = 1
    /\ mem.log[1].ev = "overflow"

\* C6: column repacking and narrowing round trip. After a successful
\* Initialize with cFeatures >= 1, cInstances >= 1 on legal input, the stored
\* cell of feature i, instance j, widened back, is the raw code at
\* dataIndex(i) * cInstances + j of the caller's buffer.
C6_RepackRoundTrip ==
    (InitSucceeded /\ frame.cFeatures >= 1 /\ frame.cInstances >= 1 /\ LegalInput) =>
        \A i \in 1..frame.cFeatures, j \in 1..frame.cInstances :
            Widen(mem.heap[Slots[i]].cells[j]) = RawCode(i, j)

C6_Witness ==
    /\ InitSucceeded
    /\ frame.cFeatures = 2
    /\ frame.cInstances = 2
    /\ LegalInput
    /\ frame.aFeatures[1].iFeatureData = 1
    /\ mem.heap[Slots[1]].cells = <<1, 2>>
    /\ mem.heap[Slots[2]].cells = <<0, 3>>

\* C7: column-builder unwind. If the k-th sub-array allocation fails,
\* ConstructInputData frees exactly the k-1 sub-arrays allocated before it,
\* each once, then the outer array once, and returns null; if the outer
\* allocation fails it frees nothing and returns null; it returns a non-null
\* outer array only with all cFeatures sub-arrays allocated and filled.
C7_ColumnBuilderUnwind ==
    op = "Initialize" =>
        /\ \A f \in LogIdx({"fail"}, {"col"}) :
              /\ frame.aaInputData = NULL
              /\ Cardinality(ColMallocIdx) < frame.cFeatures
              /\ \A k \in ColMallocIdx : k < f
              /\ Addresses(ColFreeIdx) = Addresses(ColMallocIdx)
              /\ Cardinality(ColFreeIdx) = Cardinality(ColMallocIdx)
              /\ Cardinality(OuterFreeIdx) = 1
              /\ Addresses(OuterFreeIdx) = Addresses(LogIdx({"malloc"}, {"outer"}))
              /\ \A k \in ColFreeIdx, o \in OuterFreeIdx : f < k /\ k < o
              /\ DoubleFreeIdx = {}
        /\ LogIdx({"fail"}, {"outer"}) # {} =>
              /\ frame.aaInputData = NULL
              /\ LogIdx({"malloc"}, {"outer", "col"}) = {}
              /\ ColFreeIdx = {} /\ OuterFreeIdx = {}
        /\ frame.aaInputData # NULL =>
              /\ Cardinality(ColMallocIdx) = frame.cFeatures
              /\ ColFreeIdx = {} /\ OuterFreeIdx = {}
              /\ Len(mem.heap[frame.aaInputData].cells) = frame.cFeatures
              /\ \A i \in 1..frame.cFeatures :
                    /\ mem.heap[frame.aaInputData].cells[i] \in Addresses(ColMallocIdx)
                    /\ Len(mem.heap[mem.heap[frame.aaInputData].cells[i]].cells) = frame.cInstances

C7_Witness ==
    /\ InitFailed
    /\ frame.cFeatures = 3
    /\ LogIdx({"fail"}, {"col"}) # {}
    /\ Cardinality(ColMallocIdx) = 1
    /\ Cardinality(ColFreeIdx) = 1
    /\ Cardinality(OuterFreeIdx) = 1
    /\ mem.live = {}

\* C8: symmetric teardown. The first Destruct frees every block the instance
\* owns (the residual array, each of the m_cFeatures sub-arrays, the outer
\* array) exactly once, every sub-array before the outer array, and leaves no
\* block live; on an all-zero instance it frees nothing.
C8_SymmetricTeardown ==
    (op = "Destruct" /\ nDestruct = 1) =>
        LET owned == ({m_aResidualErrors, m_aaInputData} \cup {Slots[i] : i \in 1..Len(Slots)})
                        \ {NULL}
        IN  /\ pc = "idle"
            /\ mem.live = {}
            /\ DoubleFreeIdx = {}
            /\ Addresses(FreeIdx) = owned
            /\ Cardinality(FreeIdx) = Cardinality(owned)
            /\ Len(mem.log) = Cardinality(FreeIdx)
            /\ \A k \in ColFreeIdx, o \in OuterFreeIdx : k < o
            /\ (ret = "false" /\ m_cInstances >= 1) =>
                  /\ Cardinality(LogIdx({"free"}, {"res"})) = 1
                  /\ Cardinality(ColFreeIdx) = m_cFeatures
                  /\ Cardinality(OuterFreeIdx) = (IF m_cFeatures >= 1 THEN 1 ELSE 0)
            /\ (Fields = ZeroFields => mem.log = <<>>)

C8_Witness ==
    /\ op = "Destruct"
    /\ nDestruct = 1
    /\ ret = "false"
    /\ m_cInstances >= 1
    /\ m_cFeatures = 3
    /\ Len(mem.log) = 5
    /\ mem.log[5].kind = "outer"
    /\ mem.live = {}

\* C9: nullness invariant. Between Initialize calls, before Destruct, the
\* residual field is null iff m_cInstances = 0 and the column field is null iff
\* m_cFeatures = 0 or m_cInstances = 0.
C9_Nullness ==
    (pc = "idle" /\ nDestruct = 0) =>
        /\ (m_aResidualErrors = NULL) <=> (m_cInstances = 0)
        /\ (m_aaInputData = NULL) <=> (m_cFeatures = 0 \/ m_cInstances = 0)

C9_Witness ==
    /\ pc = "idle"
    /\ nDestruct = 0
    /\ nInit = 2
    /\ m_aResidualErrors # NULL
    /\ m_cInstances >= 1
    /\ m_aaInputData = NULL
    /\ m_cFeatures = 0

\* C10: column well-formedness. Between operations, before Destruct, a
\* non-null column field is a live outer array of exactly m_cFeatures >= 1
\* slots, each holding a distinct, live, non-null sub-array of exactly
\* m_cInstances cells.
C10_ColumnsWellFormed ==
    (pc = "idle" /\ nDestruct = 0 /\ m_aaInputData # NULL) =>
        /\ m_aaInputData \in mem.live
        /\ mem.heap[m_aaInputData].kind = "outer"
        /\ m_cFeatures >= 1
        /\ mem.heap[m_aaInputData].len = m_cFeatures
        /\ Len(Slots) = m_cFeatures
        /\ \A i \in 1..Len(Slots) :
              /\ Slots[i] # NULL
              /\ Slots[i] \in mem.live
              /\ mem.heap[Slots[i]].kind = "col"
              /\ mem.heap[Slots[i]].len = m_cInstances
              /\ Len(mem.heap[Slots[i]].cells) = m_cInstances
              /\ \A k \in 1..Len(Slots) : k # i => Slots[k] # Slots[i]

C10_Witness ==
    /\ pc = "idle"
    /\ nDestruct = 0
    /\ m_aaInputData # NULL
    /\ m_cFeatures = 3
    /\ m_cInstances = 3
    /\ Cardinality({Slots[i] : i \in 1..Len(Slots)}) = 3

\* the current (last) Initialize was called after an Initialize had succeeded
SecondInitialize ==
    /\ op = "Initialize"
    /\ nOk >= 1
    /\ ~(nOk = 1 /\ pc = "idle" /\ ret = "false")

\* C11: double initialization is rejected. A second Initialize after a
\* successful one, with no Destruct in between, is stopped by the entry checks
\* before it allocates anything or writes a field.
C11_DoubleInitRejected ==
    SecondInitialize =>
        /\ pc = "assert_failed"
        /\ mem.log = <<>>
        /\ Fields = pre

\* C12: residual allocation failure is checked at its call site. When the
\* allocation of the residual array fails, no residual kernel is called with a
\* null output array and the scratch allocation is not attempted.
C12_ResidualFailureChecked ==
    (op = "Initialize" /\ LogIdx({"fail"}, {"res"}) # {}) =>
        /\ \A k \in KernelIdx : mem.log[k].p # NULL
        /\ LogIdx({"malloc", "fail"}, {"tmp"}) = {}

\* C13: commit ordering. Within Initialize no field differs from its value at
\* entry while a fallible step is still ahead or the call is failing: a field
\* is written only once every allocation has succeeded, and from there the call
\* can only return false.
C13_CommitOrdering ==
    /\ [](op = "Initialize" =>
            /\ (pc \in {"ConstructResidualErrors", "ConstructInputData", "exit_error",
                        "crashed", "assert_failed"} => Fields = pre)
            /\ (pc = "idle" /\ ret = "true" => Fields = pre)
            /\ (Fields # pre => FailIdx = {} /\ LogIdx({"overflow"}, {"res"}) = {}))
    /\ [][pc = "commit" => (pc' = "idle" /\ ret' = "false")]_vars

C13_Witness ==
    /\ op = "Initialize"
    /\ pc = "commit"
    /\ frame.cFeatures = 3
    /\ m_aaInputData # NULL
    /\ m_aResidualErrors = NULL
    /\ m_cInstances = 0
    /\ Fields # pre

\* positions in the trace of the events of the residual builder and of the column builder
\* (free(aResidualErrors) belongs to the residual builder when it follows the
\* failed scratch allocation, line 54; otherwise it is Initialize's own, line 180)
ResidualIdx ==
    { k \in DOMAIN mem.log :
        /\ mem.log[k].kind \notin {"outer", "col"}
        /\ (mem.log[k].kind = "res" /\ mem.log[k].ev \in {"free", "dfree"}) =>
                /\ k > 1
                /\ mem.log[k - 1].ev = "fail"
                /\ mem.log[k - 1].kind = "tmp" }

ColumnIdx == { k \in DOMAIN mem.log : mem.log[k].kind \in {"outer", "col"} }

\* C14: builder ordering. Within Initialize the residual builder runs first and
\* the column builder runs only after it returned a non-null array, and only
\* for a non-zero feature count (inside a non-zero instance count): every
\* event of the column builder comes after every event of the residual
\* builder, a failed residual builder is followed by no column event, and
\* with zero features the column table stays null.
C14_BuilderOrdering ==
    op = "Initialize" =>
        /\ \A c \in ColumnIdx : \A r \in ResidualIdx : r < c
        /\ (ColumnIdx # {} =>
                /\ frame.aResidualErrors # NULL
                /\ frame.cFeatures # 0
                /\ frame.cInstances # 0
                /\ MallocIdx \cap LogIdx({"malloc"}, {"res"}) # {})
        /\ (pc = "ConstructInputData" => frame.aResidualErrors # NULL /\ frame.cFeatures # 0)
        /\ (LogIdx({"fail", "overflow"}, {"res", "tmp"}) # {} => ColumnIdx = {})
        /\ (pc \in {"commit", "idle"} /\ frame.cFeatures = 0 =>
                ColumnIdx = {} /\ m_aaInputData = NULL)

C14_Witness ==
    /\ InitSucceeded
    /\ frame.cFeatures = 2
    /\ frame.task = 3
    /\ LogIdx({"malloc"}, {"tmp"}) # {}
    /\ Cardinality(ColMallocIdx) = 2
    /\ \A c \in ColumnIdx : \A r \in ResidualIdx : r < c

\* what Initialize leaves behind when it is called on a fresh instance with
\* the arguments of the current call and no allocation fails
FreshMem == [heap |-> <<>>, live |-> {}, log |-> <<>>]

\* Initialize on a fresh instance: the residual builder, then, for a
\* non-null result and a non-zero feature count, the column builder
FreshInitialize ==
    IF 0 = frame.cInstances
    THEN [M |-> FreshMem, ret |-> "false",
          fields |-> [ZeroFields EXCEPT !.m_cFeatures = frame.cFeatures]]
    ELSE LET r == ConstructResidualErrors(FreshMem, frame.cInstances, frame.task,
                                          TRUE, TRUE, FALSE)
         IN  IF NULL = r.ret
             THEN [M |-> r.M, ret |-> "true", fields |-> ZeroFields]
             ELSE IF 0 = frame.cFeatures
             THEN [M |-> r.M, ret |-> "false",
                   fields |-> [m_aResidualErrors |-> r.ret, m_aaInputData |-> NULL,
                               m_cInstances |-> frame.cInstances, m_cFeatures |-> 0]]
             ELSE LET c == ConstructInputData(r.M, frame, frame.cFeatures + 1, asserts)
                  IN  IF c.aborted
                      THEN [M |-> c.M, ret |-> "none", fields |-> ZeroFields]
                      ELSE IF NULL = c.ret
                      THEN [M |-> free(c.M, r.ret), ret |-> "true", fields |-> ZeroFields]
                      ELSE [M |-> c.M, ret |-> "false",
                            fields |-> [m_aResidualErrors |-> r.ret,
                                        m_aaInputData |-> c.ret,
                                        m_cInstances |-> frame.cInstances,
                                        m_cFeatures |-> frame.cFeatures]]

FreshFields == FreshInitialize.fields

FreshLive == FreshInitialize.M.live

\* C15: re-initializable after failure. After any number of consecutive failed
\* Initialize calls on a fresh instance the fields are all zero and no block
\* is live, so the entry precondition of Initialize holds again; a following
\* Initialize in which no allocation fails succeeds, and its fields and live
\* blocks are those the same call leaves on a fresh instance.
C15_ReinitializableAfterFailure ==
    /\ (InitFailed /\ nOk = 0 /\ nDestruct = 0) =>
            /\ InitializePrecondition
            /\ Fields = ZeroFields
            /\ mem.live = {}
    /\ (op = "Initialize" /\ nInit >= 2 /\ nOk = 0 /\ pc # "assert_failed") =>
            /\ pre = ZeroFields
            /\ \A p \in mem.live : \E k \in MallocIdx : mem.log[k].p = p
    /\ (InitEnded /\ nInit >= 2 /\ FailIdx = {}
            /\ LogIdx({"overflow"}, {"res"}) = {} /\ LegalInput) =>
            InitSucceeded
    /\ (InitReturned /\ nInit >= 2 /\ FailIdx = {}
            /\ LogIdx({"overflow"}, {"res"}) = {}) =>
            /\ ret = "false"
            /\ Fields = FreshFields
            /\ mem.live = FreshLive

C15_Witness ==
    /\ InitSucceeded
    /\ nInit = 2
    /\ frame.cFeatures = 2
    /\ frame.cInstances = 2
    /\ Cardinality(mem.live) = 4
    /\ Fields = FreshFields
    /\ mem.live = FreshLive

\* ConstructResidualErrors has just returned to Initialize
ResidualsReturned ==
    /\ op = "Initialize"
    /\ frame.cInstances # 0
    /\ \/ pc = "ConstructInputData"
       \/ pc = "commit" /\ frame.cFeatures = 0
       \/ pc = "exit_error" /\ ColumnIdx = {}

ScratchMallocIdx == LogIdx({"malloc"}, {"tmp"})

\* C16: scratch-buffer confinement. ConstructResidualErrors asks for a scratch
\* buffer only on the multiclass path, of exactly vectorLength elements; when
\* the call has returned the buffer has been freed exactly once, the only
\* live block is the returned residual array, and none is live on failure.
C16_ScratchConfined ==
    /\ (op = "Initialize" /\ ~IsClassification(frame.task)) =>
            LogIdx({"malloc", "fail", "free", "dfree"}, {"tmp"}) = {}
    /\ (op = "Initialize" /\ IsBinaryClassification(frame.task)) =>
            LogIdx({"malloc", "fail", "free", "dfree"}, {"tmp"}) = {}
    /\ op = "Initialize" =>
            /\ Cardinality(LogIdx({"malloc", "fail"}, {"tmp"})) <= 1
            /\ \A k \in ScratchMallocIdx :
                    mem.heap[mem.log[k].p].len = GetVectorLength(frame.task)
    /\ ResidualsReturned =>
            /\ \A k \in ScratchMallocIdx :
                    /\ Cardinality({f \in LogIdx({"free"}, {"tmp"}) :
                                        mem.log[f].p = mem.log[k].p /\ f > k}) = 1
                    /\ mem.log[k].p \notin mem.live
            /\ LogIdx({"dfree"}, {"tmp"}) = {}
            /\ Cardinality(LogIdx({"free"}, {"tmp"})) = Cardinality(ScratchMallocIdx)
            /\ mem.live = {frame.aResidualErrors} \ {NULL}
            /\ (pc = "exit_error" => mem.live = {})

C16_Witness ==
    /\ ResidualsReturned
    /\ pc = "ConstructInputData"
    /\ frame.task = 3
    /\ ScratchMallocIdx # {}
    /\ LogIdx({"free"}, {"tmp"}) # {}
    /\ mem.live = {frame.aResidualErrors}

\* the stored cell of feature i, instance j of the committed columns
StoredCode(i, j) == mem.heap[Slots[i]].cells[j]

Committed == InitSucceeded /\ frame.cFeatures >= 1 /\ frame.cInstances >= 1

\* C17 as stated: every raw code is validated before it is stored, so a
\* successful Initialize has only cells below the bin count and has stored no
\* raw code that is negative, too wide or not below the bin count.
C17_AlwaysValidated ==
    Committed =>
        /\ \A i \in 1..frame.cFeatures, j \in 1..frame.cInstances :
                StoredCode(i, j) < frame.aFeatures[i].cBins
        /\ LegalInput

\* C17: bin legality of stored codes. The validation is made of assertions:
\* in a build with assertions ConstructInputData stops at the first raw code
\* that is negative, too wide or not below the bin count, so what Initialize
\* commits holds legal codes only; in a build without assertions nothing is
\* looked at, every raw code is stored reduced to the storage width, and the
\* cells are below the bin count when the caller's codes are legal.
C17_ValidatedByAssertion ==
    /\ (Committed /\ asserts) => LegalInput
    /\ Committed =>
            \A i \in 1..frame.cFeatures, j \in 1..frame.cInstances :
                StoredCode(i, j) = Narrow(RawCode(i, j))
    /\ (Committed /\ LegalInput) =>
            \A i \in 1..frame.cFeatures, j \in 1..frame.cInstances :
                /\ StoredCode(i, j) = RawCode(i, j)
                /\ StoredCode(i, j) < frame.aFeatures[i].cBins
    /\ (op = "Initialize" /\ asserts /\ pc = "commit" /\ frame.cFeatures >= 1) => LegalInput

C17_Witness ==
    /\ Committed
    /\ asserts
    /\ frame.cFeatures = 2
    /\ frame.cInstances = 2
    /\ LegalInput
    /\ StoredCode(2, 2) = 3
    /\ StoredCode(2, 2) < frame.aFeatures[2].cBins

\* a build without assertions has committed a cell that is not below the bin count
C17_IllegalStored ==
    /\ Committed
    /\ ~asserts
    /\ \E i \in 1..frame.cFeatures, j \in 1..frame.cInstances :
            /\ RawCode(i, j) < 0
            /\ StoredCode(i, j) >= frame.aFeatures[i].cBins

\* dataIndex * instanceCount of some feature does not fit the size type
OffsetOverflows ==
    \E i \in 1..frame.cFeatures :
        frame.aFeatures[i].iFeatureData * frame.cInstances > SizeMax

\* C18: every size or offset multiplication is preceded by an overflow check.
\* When instanceCount * vectorLength does not fit the size type the call
\* fails with no allocation attempted, and when dataIndex * instanceCount of
\* a feature does not fit the size type no raw code is read through the
\* wrapped offset: no column is filled and the call does not succeed.
C18_EveryProductChecked ==
    /\ (op = "Initialize" /\ ProductOverflows /\ pc # "ConstructResidualErrors") =>
            /\ LogIdx({"overflow"}, {"res"}) # {}
            /\ MallocIdx \cup FailIdx = {}
            /\ ~InitSucceeded
    /\ (op = "Initialize" /\ OffsetOverflows) =>
            /\ pc # "commit"
            /\ ~InitSucceeded
            /\ \A k \in ColMallocIdx : mem.heap[mem.log[k].p].cells = <<>>

\* the fields a successful Initialize leaves: the pointers and the instance
\* count are written for a non-empty dataset, the column pointer for a
\* non-zero feature count, the feature count always; a field that is not
\* written is as at entry
CommittedFields ==
    [m_aResidualErrors |-> IF 0 # frame.cInstances
                           THEN frame.aResidualErrors ELSE pre.m_aResidualErrors,
     m_aaInputData |-> IF 0 # frame.cInstances /\ 0 # frame.cFeatures
                       THEN frame.aaInputData ELSE pre.m_aaInputData,
     m_cInstances |-> IF 0 # frame.cInstances THEN frame.cInstances ELSE pre.m_cInstances,
     m_cFeatures |-> frame.cFeatures]

\* an allocation failed or the size product overflowed in the current call
StepFailed == FailIdx # {} \/ LogIdx({"overflow"}, {"res"}) # {}

\* C19: the boolean result of Initialize is an error flag. A call that
\* returns, returns false exactly when no step failed, with the fields
\* committed (the empty-dataset path included), and true exactly when a step
\* failed, with the fields as at entry and every block it allocated freed.
C19_ErrorFlag ==
    InitReturned =>
        /\ ret \in {"false", "true"}
        /\ (ret = "false") <=> ~StepFailed
        /\ (ret = "true") <=> StepFailed
        /\ (ret = "false" =>
                /\ Fields = CommittedFields
                /\ (frame.cInstances = 0 =>
                        m_aResidualErrors = NULL /\ m_aaInputData = NULL /\ mem.log = <<>>)
                /\ mem.live = Addresses(MallocIdx) \ Addresses(LogIdx({"free"}, {"tmp"})))
        /\ (ret = "true" =>
                /\ Fields = pre
                /\ mem.live = {}
                /\ Addresses(FreeIdx) = Addresses(MallocIdx))

C19_Witness ==
    /\ InitFailed
    /\ frame.task = 3
    /\ LogIdx({"fail"}, {"tmp"}) # {}
    /\ LogIdx({"malloc"}, {"res"}) # {}
    /\ Fields = pre
    /\ mem.live = {}

\* the slots of the outer array the do-while of Destruct walks: the body runs
\* before the test, so slot 1 always; with m_cFeatures = 0 the end pointer is
\* never met and every slot is walked
WalkedSlots ==
    IF m_cFeatures = 0 THEN DOMAIN Slots ELSE (DOMAIN Slots) \cap (1..m_cFeatures)

\* the blocks Destruct passes to free out of the fields and the slots of the
\* outer array: the residual array; for a non-null outer array, past the
\* assert on m_cFeatures, the sub-arrays in the walked slots, and the outer
\* array itself when the loop has an end
Owned ==
    ({m_aResidualErrors}
        \cup IF NULL = m_aaInputData \/ (asserts /\ ~(1 <= m_cFeatures))
             THEN {}
             ELSE {Slots[i] : i \in WalkedSlots}
                  \cup IF 1 <= m_cFeatures THEN {m_aaInputData} ELSE {}) \ {NULL}

\* Destruct has run on an instance made Ready with instanceCount >= 1
DestructedReady == op = "Destruct" /\ nOk = 1 /\ m_cInstances >= 1

\* C20 as stated: after Destruct on a Ready instance with instanceCount >= 1
\* the fields are as committed and reference freed blocks, and a second
\* Destruct frees the same blocks again: exactly the blocks the fields
\* reference, each once more.
C20_SecondDestructFreesSameBlocks ==
    DestructedReady =>
        /\ Fields = CommittedFields
        /\ Fields # ZeroFields
        /\ Owned \cap mem.live = {}
        /\ Addresses(FreeIdx) = Owned
        /\ Cardinality(FreeIdx) = Cardinality(Owned)
        /\ (nDestruct >= 2 => DoubleFreeIdx = FreeIdx)

\* C20: Destruct writes no field. It frees the blocks and leaves the four
\* fields as they were, so after Destruct on a Ready instance with
\* instanceCount >= 1 the pointer fields reference freed blocks and the
\* instance is not in the zero state. The first Destruct frees exactly the
\* blocks the fields reference, each once. A second Destruct begins by
\* passing the same residual array to free again, a double free.
C20_DestructWritesNoField ==
    /\ [][nDestruct' # nDestruct => Fields' = Fields]_vars
    /\ [](DestructedReady =>
            /\ Fields = CommittedFields
            /\ Fields # ZeroFields
            /\ ~InitializePrecondition
            /\ m_aResidualErrors # NULL
            /\ m_aResidualErrors \notin mem.live
            /\ (nDestruct = 1 =>
                    /\ pc = "idle"
                    /\ DoubleFreeIdx = {}
                    /\ Addresses(FreeIdx) = Owned
                    /\ Cardinality(FreeIdx) = Cardinality(Owned)
                    /\ mem.live \cap Owned = {})
            /\ (nDestruct >= 2 =>
                    /\ mem.log # <<>>
                    /\ mem.log[1] = Ev("dfree", "res", m_aResidualErrors)))

C20_Witness ==
    /\ DestructedReady
    /\ nDestruct = 2
    /\ frame.cFeatures = 3
    /\ pc = "crashed"
    /\ mem.log = <<Ev("dfree", "res", m_aResidualErrors), Ev("dfree", "wild", Wild)>>
    /\ Fields = CommittedFields

\* a second Destruct that was not stopped and found the freed slots as they were
C20_SameBlocksAgain ==
    /\ DestructedReady
    /\ nDestruct = 2
    /\ pc = "idle"
    /\ frame.cFeatures = 3
    /\ Cardinality(DoubleFreeIdx) = 5
    /\ Addresses(DoubleFreeIdx) = Owned

====
